---- MODULE Spec2Model ----
(***************************************************************************)
(* ContentService: the read-through cache adapter (getCachedJson /         *)
(* setCachedJson over Redis), the viewer catalog routes that sit on top of *)
(* it, the internal routes (engagement metrics and the calls of the       *)
(* system of record) and the admin routes' preHandler hook.                *)
(*                                                                         *)
(* Redis is modelled as a map from keys to entries with a remaining time   *)
(* to live; one second of wall-clock time is one Tick.  JSON texts are     *)
(* records distinct from the documents they encode, so that a text can be  *)
(* empty, malformed, or the encoding of a document.                        *)
(***************************************************************************)
EXTENDS Integers, Sequences, FiniteSets, Bags, TLC

(***************************************************************************)
(* Bounds of the model.                                                    *)
(***************************************************************************)
NumRequests == 2
MaxMetricCalls == 2
MaxAdapterTtl == 2
MaxHeaderLen == 2
MaxConfigTtl == 2

(***************************************************************************)
(* Program constants.                                                      *)
(***************************************************************************)
\* z.coerce.number().int().nonnegative().default(60)
DefaultFeedTtl == 60
DefaultSeriesTtl == 120
DefaultRelatedTtl == 180
\* a key written by SET without EX has no expiry (Redis reports TTL -1)
NoExpiry == -1

None == "none"

(***************************************************************************)
(* Documents (the values that are cached) and their items.                 *)
(***************************************************************************)
Item(id, seriesId, series, asset) ==
    [id |-> id, seriesId |-> seriesId, series |-> series, asset |-> asset, score |-> 0]

Doc(kind, items) == [kind |-> kind, items |-> items]

NoDoc == Doc("none", <<>>)
NullDoc == Doc("null", <<>>)

E1 == Item("e1", "show-a", "show-a", "asset-1")
E2 == Item("e2", None, None, "asset-2")
\* a feed row whose series reference does not resolve
E3 == Item("e3", "ghost", None, "asset-3")
\* an episode exposed as playable without a finalized streaming asset
E4 == Item("e4", "show-a", "show-a", None)
R1 == Item("show-b", "show-b", "show-b", "n/a")
\* a related entry whose series does not resolve
R2 == Item("show-x", "show-x", None, "n/a")

(***************************************************************************)
(* JSON.stringify / JSON.parse.  A text is [raw, doc]: raw is "json" for a *)
(* well-formed text and then doc is the document it encodes; any other raw *)
(* is a text JSON.parse throws on.                                         *)
(***************************************************************************)
Text(raw, doc) == [raw |-> raw, doc |-> doc]

EmptyText == Text("", NoDoc)
GarbageText == Text("{oops", NoDoc)

JSONstringify(value) == Text("json", value)

Parses(text) == text.raw = "json"

JSONparse(text) == text.doc

(***************************************************************************)
(* Redis: GET, DEL, SET, SET .. EX.                                        *)
(***************************************************************************)
Keys == {"feed:10", "series:show-a", "series:missing-slug",
         "related:show-a", "related:missing-slug", "categories"}

Entry(text, ttl) == [present |-> TRUE, text |-> text, ttl |-> ttl]

Absent == [present |-> FALSE, text |-> EmptyText, ttl |-> NoExpiry]

RedisGet(st, key) == st[key]

RedisDel(st, key) == [st EXCEPT ![key] = Absent]

RedisSet(st, key, text) == [st EXCEPT ![key] = Entry(text, NoExpiry)]

RedisSetEx(st, key, text, ttl) == [st EXCEPT ![key] = Entry(text, ttl)]

\* one second passes: every expiring key loses a second, and is gone at zero
RedisTick(st) ==
    [k \in Keys |->
        IF st[k].present /\ st[k].ttl > 0
        THEN (IF st[k].ttl = 1 THEN Absent ELSE [st[k] EXCEPT !.ttl = @ - 1])
        ELSE st[k]]

(***************************************************************************)
(* The cache adapter.                                                      *)
(***************************************************************************)
\* `!payload`: the reply is nil (no such key) or the empty string
Falsy(reply) == ~reply.present \/ reply.text.raw = ""

\* what getCachedJson does with the reply of redis.get:
\* "null" = return null, "value" = return the parsed document,
\* "corrupt" = JSON.parse threw, go on to redis.del
getCachedJson(reply) ==
    IF Falsy(reply) THEN "null"
    ELSE IF Parses(reply.text) THEN "value"
    ELSE "corrupt"

setCachedJsonNoEx(st, key, value, ttlSeconds) ==
    RedisSet(st, key, JSONstringify(value))

setCachedJsonOffByOne(st, key, value, ttlSeconds) ==
    IF ttlSeconds > 0
    THEN RedisSetEx(st, key, JSONstringify(value), ttlSeconds + 1)
    ELSE RedisSet(st, key, JSONstringify(value))

setCachedJsonNx(st, key, value, ttlSeconds) ==
    IF st[key].present THEN st
    ELSE IF ttlSeconds > 0
    THEN RedisSetEx(st, key, JSONstringify(value), ttlSeconds)
    ELSE RedisSet(st, key, JSONstringify(value))

setCachedJson(st, key, value, ttlSeconds) ==
    IF ttlSeconds > 0
    THEN RedisSetEx(st, key, JSONstringify(value), ttlSeconds)
    ELSE RedisSet(st, key, JSONstringify(value))

(***************************************************************************)
(* Configuration: envSchema's cache lifetimes.  A lifetime is accepted     *)
(* when it is a non-negative integer; an absent variable takes the default.*)
(***************************************************************************)
Config(feed, series, related) == [feed |-> feed, series |-> series, related |-> related]

EnvAccepts(n) == n \in Nat

DefaultConfig == Config(DefaultFeedTtl, DefaultSeriesTtl, DefaultRelatedTtl)

(***************************************************************************)
(* The system of record, read through CatalogService.  A catalog is fixed  *)
(* for a behaviour: "healthy" holds well-formed rows only, "corrupt" holds *)
(* a feed row with a dangling series reference, an episode of show-a with  *)
(* no finalized asset and a related entry that does not resolve.           *)
(***************************************************************************)
Catalogs == {"healthy", "corrupt"}

Slugs == {"show-a", "missing-slug"}

KnownSlugs == {"show-a"}

Kinds == {"feed", "series", "related", "categories"}

\* the rows a query reads, or NotFound
NotFound == Doc("notfound", <<>>)

QueryRows(cat, kind, slug) ==
    IF kind = "feed"
    THEN Doc("feed", IF cat = "healthy" THEN <<E1, E2>> ELSE <<E1, E3>>)
    ELSE IF kind = "categories"
    THEN Doc("categories", <<>>)
    ELSE IF slug \notin KnownSlugs
    THEN NotFound
    ELSE IF kind = "series"
    THEN Doc("series", IF cat = "healthy" THEN <<E1>> ELSE <<E4>>)
    ELSE Doc("related", IF cat = "healthy" THEN <<R1>> ELSE <<R2>>)

\* the cache key of a query: a function of its normalized parameters
CacheKey(kind, slug) ==
    IF kind = "feed" THEN "feed:10"
    ELSE IF kind = "categories" THEN "categories"
    ELSE IF kind = "series" THEN (IF slug = "show-a" THEN "series:show-a"
                                                     ELSE "series:missing-slug")
    ELSE (IF slug = "show-a" THEN "related:show-a" ELSE "related:missing-slug")

\* the lifetime the orchestrator is handed for a kind of query
TtlFor(cfg, kind) ==
    IF kind = "series" THEN cfg.series
    ELSE IF kind = "related" THEN cfg.related
    ELSE cfg.feed

(***************************************************************************)
(* Data Quality Monitor: the first violation found in a document, or "ok". *)
(***************************************************************************)
MissingSeries == "FEED_ITEM_REFERENCES_NONEXISTENT_SERIES"
MissingAsset == "EPISODE_MISSING_FINALIZED_ASSET"
EmptySeries == "SERIES_HAS_ZERO_PLAYABLE_EPISODES"

Dangling(item) == item.seriesId # None /\ item.series = None

RECURSIVE FirstIssue(_)
FirstIssue(items) ==
    IF items = <<>> THEN "ok"
    ELSE IF Dangling(Head(items)) THEN MissingSeries
    ELSE IF Head(items).asset = None THEN MissingAsset
    ELSE FirstIssue(Tail(items))

Validate(doc) ==
    IF doc.kind = "series" /\ doc.items = <<>> THEN EmptySeries
    ELSE FirstIssue(doc.items)

HasDangling(doc) == \E i \in 1 .. Len(doc.items) : Dangling(doc.items[i])

\* viewerCatalogRoutes hands the service a DataQualityMonitor
QualityMonitorMissing == FALSE

QualityMonitorWired == TRUE

\* the service's check of a document just before it leaves the service
Check(doc) == IF QualityMonitorWired THEN Validate(doc) ELSE "ok"

(***************************************************************************)
(* Trending Aggregator: scores kept in a sorted set, moved by ZINCRBY.     *)
(***************************************************************************)
ContentIds == {"e1", "e2"}

ViewWeight == 1
LikeWeight == 3

Event(id, views, likes) == [id |-> id, views |-> views, likes |-> likes]

Weight(ev) == ev.views * ViewWeight + ev.likes * LikeWeight

EventChoices == {Event("e1", 1, 0), Event("e2", 0, 1), Event("e1", 1, 1)}

MetricBodies ==
    {<<e>> : e \in EventChoices} \cup {<<e, f>> : e \in EventChoices, f \in EventChoices}

ZAdd(scores, id, delta) == [scores EXCEPT ![id] = delta]

ZIncrBy(scores, id, delta) == [scores EXCEPT ![id] = @ + delta]

\* scoreFor: an absent entry resolves to 0
ScoreFor(scores, id) == IF id \in DOMAIN scores THEN scores[id] ELSE 0

\* enrich: each item carries its current score; without the store, no boost
Enrich(doc, scores, trendUp) ==
    [doc EXCEPT !.items =
        [i \in 1 .. Len(doc.items) |->
            [doc.items[i] EXCEPT !.score =
                IF trendUp THEN ScoreFor(scores, doc.items[i].id) ELSE 0]]]

(***************************************************************************)
(* What a service call gives its route, and the routes' replies.           *)
(***************************************************************************)
Outcome(tag, doc, fromCache, issue) ==
    [tag |-> tag, doc |-> doc, fromCache |-> fromCache, issue |-> issue]

Ok(doc, fromCache) == Outcome("ok", doc, fromCache, None)
Null == Outcome("null", NoDoc, FALSE, None)
ConsistencyError(issue) == Outcome("consistency", NoDoc, FALSE, issue)
OtherError == Outcome("error", NoDoc, FALSE, None)

Response(status, message, issue, xcache, maxAge, body) ==
    [status |-> status, message |-> message, issue |-> issue, xcache |-> xcache,
     maxAge |-> maxAge, body |-> body]

NoResponse == Response(0, None, None, None, NoExpiry, NoDoc)

\* an error that leaves the handler is answered by the framework
Unhandled == Response(500, "Internal Server Error", None, None, NoExpiry, NoDoc)

QualityFailure(issue) ==
    Response(500, "Catalog data quality issue", issue, None, NoExpiry, NoDoc)

SeriesNotFound == Response(404, "Series not found", None, None, NoExpiry, NoDoc)

XCacheSwapped(fromCache) == IF fromCache THEN "miss" ELSE "hit"

XCache(fromCache) == IF fromCache THEN "hit" ELSE "miss"

FeedReplyNoCatch(cfg, o) ==
    IF o.tag = "ok"
    THEN Response(200, None, None, XCache(o.fromCache), cfg.feed, o.doc)
    ELSE Unhandled

FeedReply(cfg, o) ==
    IF o.tag = "ok"
    THEN Response(200, None, None, XCache(o.fromCache), cfg.feed, o.doc)
    ELSE IF o.tag = "consistency" THEN QualityFailure(o.issue)
    ELSE Unhandled

SeriesReplyNoNullCheck(cfg, o) ==
    IF o.tag = "ok"
    THEN Response(200, None, None, XCache(o.fromCache), cfg.series, o.doc)
    ELSE IF o.tag = "consistency" THEN QualityFailure(o.issue)
    ELSE Unhandled

SeriesReply(cfg, o) ==
    IF o.tag = "null" THEN SeriesNotFound
    ELSE IF o.tag = "ok"
    THEN Response(200, None, None, XCache(o.fromCache), cfg.series, o.doc)
    ELSE IF o.tag = "consistency" THEN QualityFailure(o.issue)
    ELSE Unhandled

RelatedReply(cfg, o) ==
    IF o.tag = "null" THEN SeriesNotFound
    ELSE IF o.tag = "ok"
    THEN Response(200, None, None, XCache(o.fromCache), cfg.related, o.doc)
    ELSE IF o.tag = "consistency" THEN QualityFailure(o.issue)
    ELSE Unhandled

\* GET /categories sets cache-control only and returns the result as it is
CategoriesReply(cfg, o) ==
    IF o.tag = "ok"
    THEN Response(200, None, None, None, cfg.feed, o.doc)
    ELSE Unhandled

Reply(cfg, kind, o) ==
    IF kind = "feed" THEN FeedReply(cfg, o)
    ELSE IF kind = "series" THEN SeriesReply(cfg, o)
    ELSE IF kind = "related" THEN RelatedReply(cfg, o)
    ELSE CategoriesReply(cfg, o)

MetricsReplyAlwaysAccepts(applied) ==
    Response(202, "accepted", None, None, NoExpiry, NoDoc)

\* POST /events/engagement/metrics: 202 when applyMetrics returned, 500 when it threw
MetricsReply(applied) ==
    IF applied
    THEN Response(202, "accepted", None, None, NoExpiry, NoDoc)
    ELSE Response(500, "Unable to persist engagement metrics", None, None, NoExpiry, NoDoc)

(***************************************************************************)
(* The internal routes that call the system of record (CatalogService).    *)
(***************************************************************************)
InternalRoutes == {"categoryById", "episodeAssets", "mediaProcessed"}

\* the codes a CatalogServiceError carries; "CONFLICT" stands for any other code
ErrorCodes == {"NOT_FOUND", "FAILED_PRECONDITION", "CONFLICT"}

\* the call threw a CatalogServiceError with this code
CatalogServiceError(code) == Outcome("catalogServiceError", NoDoc, FALSE, code)

\* what a call of the system of record can end with: its result, a
\* CatalogServiceError, or an error of another class
CatalogResults ==
    {Ok(NullDoc, FALSE), OtherError} \cup {CatalogServiceError(c) : c \in ErrorCodes}

Plain(status, message) == Response(status, message, None, None, NoExpiry, NoDoc)

\* GET /catalog/categories/:id
CategoryByIdReply(o) ==
    IF o.tag = "ok" THEN Response(200, None, None, None, NoExpiry, o.doc)
    ELSE IF o.tag = "catalogServiceError" /\ o.issue = "NOT_FOUND"
    THEN Plain(404, "Category not found")
    ELSE Plain(500, "Unable to fetch category")

\* POST /catalog/episodes/:id/assets
EpisodeAssetsReply(o) ==
    IF o.tag = "ok" THEN Response(200, None, None, None, NoExpiry, o.doc)
    ELSE IF o.tag = "catalogServiceError" /\ o.issue = "NOT_FOUND"
    THEN Plain(404, "error.message")
    ELSE IF o.tag = "catalogServiceError" /\ o.issue = "FAILED_PRECONDITION"
    THEN Plain(412, "error.message")
    ELSE Plain(500, "Unable to register episode asset")

\* POST /events/media-processed
MediaProcessedReply(o) ==
    IF o.tag = "ok" THEN Plain(202, "accepted")
    ELSE IF o.tag = "catalogServiceError" /\ o.issue = "NOT_FOUND"
    THEN Plain(404, "error.message")
    ELSE IF o.tag = "catalogServiceError" /\ o.issue = "FAILED_PRECONDITION"
    THEN Plain(412, "error.message")
    ELSE Plain(500, "Unable to apply media processed event")

InternalReply(route, o) ==
    IF route = "categoryById" THEN CategoryByIdReply(o)
    ELSE IF route = "episodeAssets" THEN EpisodeAssetsReply(o)
    ELSE MediaProcessedReply(o)

(***************************************************************************)
(* The admin routes' preHandler hook.  A header is absent (undefined), an  *)
(* array (the header was sent more than once) or a string.  A roles string *)
(* is a sequence of pieces: words and separators; adjacent words run       *)
(* together into one token.                                                *)
(***************************************************************************)
Header(kind, value) == [kind |-> kind, value |-> value]

Words == {"admin", "ADMIN", "x"}

Separators == {","}

RECURSIVE StringsUpTo(_)
StringsUpTo(n) ==
    IF n = 0 THEN {<<>>}
    ELSE LET shorter == StringsUpTo(n - 1)
         IN  shorter \cup {Append(str, p) : str \in shorter, p \in Words \cup Separators}

RolesValues ==
    {Header("absent", <<>>), Header("array", <<>>)}
        \cup {Header("string", str) : str \in StringsUpTo(MaxHeaderLen)}

AdminIdValues ==
    {Header("absent", ""), Header("array", ""), Header("string", ""),
     Header("string", "admin-1")}

UserIdValues ==
    {Header("absent", ""), Header("array", ""), Header("string", ""),
     Header("string", "user-2")}

Headers(adminRole, userRoles, adminId, userId) ==
    [adminRole |-> adminRole, userRoles |-> userRoles, adminId |-> adminId,
     userId |-> userId]

AdminRequests ==
    {Headers(ar, ur, ai, ui) :
        ar \in RolesValues, ur \in RolesValues, ai \in AdminIdValues, ui \in UserIdValues}

\* split(/[,\s]+/).filter(Boolean): the maximal runs of words
RECURSIVE Split(_, _)
Split(str, run) ==
    IF str = <<>> THEN (IF run = <<>> THEN <<>> ELSE <<run>>)
    ELSE IF Head(str) \in Separators
    THEN (IF run = <<>> THEN <<>> ELSE <<run>>) \o Split(Tail(str), <<>>)
    ELSE Split(Tail(str), Append(run, Head(str)))

toLowerCase(word) == IF word = "ADMIN" THEN "admin" ELSE word

\* role.toLowerCase() === "admin"
IsAdminRole(role) == Len(role) = 1 /\ toLowerCase(role[1]) = "admin"

\* x-user-roles ?? x-admin-role
RolesHeaderSwapped(h) == IF h.userRoles.kind = "absent" THEN h.adminRole ELSE h.userRoles

\* x-admin-role ?? x-user-roles
RolesHeader(h) == IF h.adminRole.kind = "absent" THEN h.userRoles ELSE h.adminRole

Roles(h) ==
    LET rolesHeader == RolesHeader(h)
    IN  IF rolesHeader.kind = "string" THEN Split(rolesHeader.value, <<>>) ELSE <<>>

IsAdmin(h) == \E i \in 1 .. Len(Roles(h)) : IsAdminRole(Roles(h)[i])

\* the string in x-admin-id, or undefined ?? the string in x-user-id, or undefined
AdminId(h) ==
    IF h.adminId.kind = "string" THEN h.adminId
    ELSE IF h.userId.kind = "string" THEN h.userId
    ELSE Header("absent", "")

\* !adminId
NoAdminId(id) == id.kind # "string" \/ id.value = ""

\* the hook after verifyServiceRequest returned: what it looked at, in
\* order, the status it threw (0: none) and the headers it leaves
PreHandler(h) ==
    IF ~IsAdmin(h)
    THEN [examined |-> <<"roles">>, status |-> 403, headers |-> h]
    ELSE IF NoAdminId(AdminId(h))
    THEN [examined |-> <<"roles", "id">>, status |-> 400, headers |-> h]
    ELSE [examined |-> <<"roles", "id">>, status |-> 0,
          headers |-> [h EXCEPT !.adminId = AdminId(h)]]

(***************************************************************************)
(* State.                                                                  *)
(***************************************************************************)
VARIABLES
    config,      \* the cache lifetimes loadConfig returned
    catalog,     \* which catalog the system of record holds
    query,       \* the query the viewer requests of this behaviour carry
    store,       \* Redis: key -> entry
    trending,    \* Redis sorted set: content id -> score
    reqs,        \* the requests in flight: a bag of request records
    call,        \* the adapter call in progress when the adapter is driven directly
    age,         \* history: seconds since the service last wrote the feed key (-1: never)
    lastWrite,   \* history: the document the service last wrote under the feed key
    applied,     \* history: per content id, the sum of the weighted deltas applied
    metricCalls  \* history: engagement-metrics requests received

vars == <<config, catalog, query, store, trending, reqs, call, age, lastWrite, applied,
          metricCalls>>

envVars == <<config, catalog, query>>
svcVars == <<trending, reqs, applied, metricCalls>>

\* the requests in flight; they are interchangeable, so they are kept as a bag
Requests == BagToSet(reqs)

InFlight == BagCardinality(reqs)

\* request req goes on as next
Step(req, next) == (reqs (-) SetToBag({req})) (+) SetToBag({next})

(***************************************************************************)
(* The adapter driven directly by a caller.                                *)
(***************************************************************************)
IdleCall ==
    [pc |-> "idle", op |-> None, key |-> None, reply |-> Absent,
     result |-> None, value |-> NoDoc, ttl |-> 0, before |-> Absent,
     after |-> Absent]

AdapterKeys == {"feed:10", "series:show-a"}

AdapterValues == {Doc("feed", <<E1, E2>>), Doc("feed", <<E1, E3>>), NullDoc}

AdapterTtls == (0 - 1) .. MaxAdapterTtl

ExternalTexts ==
    {EmptyText, GarbageText, JSONstringify(NullDoc),
     JSONstringify(Doc("feed", <<E1, E3>>)), JSONstringify(Doc("feed", <<E1, E2>>))}

\* the key whose age the history variable age follows
WatchedKey == "feed:10"

\* age stops counting one second past the feed lifetime
AgeCap == config.feed + 1

BumpAge(a) == IF a >= 0 /\ a < AgeCap THEN a + 1 ELSE a

\* the service wrote the feed key less than the feed lifetime ago
Fresh == age >= 0 /\ age < config.feed

\* the service wrote the feed key at least the feed lifetime ago
Expired == age >= config.feed

\* getCachedJson up to and including `await redis.get(key)` and the parse
AdapterGet(key, up) ==
    /\ call.pc = "idle"
    /\ LET reply == RedisGet(store, key)
           outcome == getCachedJson(reply)
           base == [IdleCall EXCEPT !.op = "get", !.key = key]
       IN  call' =
             IF ~up
             THEN [base EXCEPT !.pc = "returned", !.result = "storeError",
                               !.after = store[key]]
             ELSE IF outcome = "null"
             THEN [base EXCEPT !.pc = "returned", !.reply = reply, !.result = "null",
                               !.after = store[key]]
             ELSE IF outcome = "value"
             THEN [base EXCEPT !.pc = "returned", !.reply = reply, !.result = "value",
                               !.value = JSONparse(reply.text), !.after = store[key]]
             ELSE [base EXCEPT !.pc = "del", !.reply = reply]
    /\ UNCHANGED <<envVars, svcVars, store, age, lastWrite>>

\* the catch block: `await redis.del(key); return null`
AdapterDel(up) ==
    /\ call.pc = "del"
    /\ IF up
       THEN /\ store' = RedisDel(store, call.key)
            /\ call' = [call EXCEPT !.pc = "returned", !.result = "null",
                                    !.after = store'[call.key]]
       ELSE /\ store' = store
            /\ call' = [call EXCEPT !.pc = "returned", !.result = "storeError",
                                    !.after = store[call.key]]
    /\ UNCHANGED <<envVars, svcVars, age, lastWrite>>

AdapterSet(key, value, ttlSeconds, up) ==
    /\ call.pc = "idle"
    /\ IF up
       THEN /\ store' = setCachedJson(store, key, value, ttlSeconds)
            /\ call' = [IdleCall EXCEPT !.pc = "returned", !.op = "set", !.key = key,
                                        !.value = value, !.ttl = ttlSeconds,
                                        !.result = "void", !.before = store[key],
                                        !.after = store'[key]]
       ELSE /\ store' = store
            /\ call' = [IdleCall EXCEPT !.pc = "returned", !.op = "set", !.key = key,
                                        !.value = value, !.ttl = ttlSeconds,
                                        !.result = "storeError", !.before = store[key],
                                        !.after = store[key]]
    /\ UNCHANGED <<envVars, svcVars, age, lastWrite>>

AdapterReturn ==
    /\ call.pc = "returned"
    /\ call' = IdleCall
    /\ UNCHANGED <<envVars, svcVars, store, age, lastWrite>>

(***************************************************************************)
(* The environment: other writers of the shared store, and time.           *)
(***************************************************************************)
\* another writer of the shared store puts a text under a cache key
ExternalWrite(key, text) ==
    /\ store' = RedisSet(store, key, text)
    /\ UNCHANGED <<envVars, trending, reqs, applied, metricCalls, age, lastWrite, call>>

Tick ==
    /\ store' = RedisTick(store)
    /\ age' = BumpAge(age)
    /\ UNCHANGED <<envVars, svcVars, call, lastWrite>>

(***************************************************************************)
(* Requests.  A viewer request runs the orchestrator's chain               *)
(*   get -> (del) -> fetch -> set -> done                                  *)
(* and each step is one awaited I/O call with what follows it up to the    *)
(* next await; a metrics request applies its events one ZINCRBY at a time. *)
(***************************************************************************)
IdleReq ==
    [pc |-> "idle", kind |-> None, slug |-> None, key |-> None, doc |-> NoDoc,
     events |-> <<>>, idx |-> 0, outcome |-> Outcome(None, NoDoc, FALSE, None),
     resp |-> NoResponse,
     \* history of the request
     readFailed |-> FALSE, writeFailed |-> FALSE, storeFailed |-> FALSE,
     sorQueried |-> FALSE, sorFailed |-> FALSE, found |-> None,
     considered |-> NoDoc, sawFresh |-> FALSE, sawExpired |-> FALSE]

\* the service call ends with outcome o and the route answers
Finish(req, o) ==
    [req EXCEPT !.pc = "done", !.outcome = o, !.resp = Reply(config, req.kind, o)]

\* a document in hand is checked and then returned or refused
CheckedReturn(req, doc, fromCache) ==
    LET issue == Check(doc)
        seen == [req EXCEPT !.considered = doc]
    IN  IF issue = "ok" THEN Finish(seen, Ok(doc, fromCache))
        ELSE Finish(seen, ConsistencyError(issue))

\* a viewer route receives the query and calls the service: key-compute
StartViewer ==
    /\ InFlight < NumRequests
    /\ reqs' = reqs (+) SetToBag({
                  [IdleReq EXCEPT !.pc = "get", !.kind = query.kind, !.slug = query.slug,
                                  !.key = CacheKey(query.kind, query.slug)]})
    /\ UNCHANGED <<envVars, store, trending, call, age, lastWrite, applied, metricCalls>>

\* cache-lookup: getCachedJson's redis.get and parse; a failed read is a miss
SvcCacheGet(r, up) ==
    /\ r.pc = "get"
    /\ LET req == [r EXCEPT !.sawFresh = Fresh, !.sawExpired = Expired]
           reply == RedisGet(store, req.key)
           outcome == getCachedJson(reply)
       IN  reqs' = Step(r,
             IF ~up THEN [req EXCEPT !.pc = "fetch", !.readFailed = TRUE]
             ELSE IF outcome = "null" THEN [req EXCEPT !.pc = "fetch"]
             ELSE IF outcome = "corrupt" THEN [req EXCEPT !.pc = "del"]
             ELSE IF JSONparse(reply.text) = NullDoc THEN [req EXCEPT !.pc = "fetch"]
             ELSE CheckedReturn(req, JSONparse(reply.text), TRUE))
    /\ UNCHANGED <<envVars, store, trending, call, age, lastWrite, applied, metricCalls>>

\* getCachedJson's catch block: redis.del, then null, which is a miss
SvcCacheDel(r, up) ==
    /\ r.pc = "del"
    /\ IF up
       THEN /\ store' = RedisDel(store, r.key)
            /\ reqs' = Step(r, [r EXCEPT !.pc = "fetch"])
       ELSE /\ store' = store
            /\ reqs' = Step(r, [r EXCEPT !.pc = "fetch", !.readFailed = TRUE])
    /\ UNCHANGED <<envVars, trending, call, age, lastWrite, applied, metricCalls>>

\* miss: fetch from the system of record, enrich, validate
SvcFetch(r, sorOk, trendUp) ==
    /\ r.pc = "fetch"
    /\ LET req == [r EXCEPT !.sorQueried = TRUE]
           rows == QueryRows(catalog, req.kind, req.slug)
           doc == Enrich(rows, trending, trendUp)
       IN  reqs' = Step(r,
             IF ~sorOk THEN Finish([req EXCEPT !.sorFailed = TRUE], OtherError)
             ELSE IF rows = NotFound THEN Finish([req EXCEPT !.found = "no"], Null)
             ELSE IF Check(doc) # "ok"
             THEN CheckedReturn([req EXCEPT !.found = "yes"], doc, FALSE)
             ELSE [req EXCEPT !.pc = "set", !.found = "yes", !.doc = doc,
                              !.considered = doc])
    /\ UNCHANGED <<envVars, store, trending, call, age, lastWrite, applied, metricCalls>>

\* cache-write with the kind's lifetime, then return; a failed write is absorbed
SvcCacheSet(r, up) ==
    /\ r.pc = "set"
    /\ IF up
       THEN /\ store' = setCachedJson(store, r.key, r.doc,
                                      TtlFor(config, r.kind))
            /\ age' = IF r.key = WatchedKey THEN 0 ELSE age
            /\ lastWrite' = IF r.key = WatchedKey THEN r.doc ELSE lastWrite
            /\ reqs' = Step(r, Finish(r, Ok(r.doc, FALSE)))
       ELSE /\ UNCHANGED <<store, age, lastWrite>>
            /\ reqs' = Step(r,
                          Finish([r EXCEPT !.writeFailed = TRUE],
                                 Ok(r.doc, FALSE)))
    /\ UNCHANGED <<envVars, trending, call, applied, metricCalls>>

\* POST /events/engagement/metrics with body.metrics = events
StartMetrics(events) ==
    /\ InFlight < NumRequests
    /\ metricCalls < MaxMetricCalls
    /\ metricCalls' = metricCalls + 1
    /\ reqs' = reqs (+) SetToBag({
                  [IdleReq EXCEPT !.pc = "apply", !.kind = "metrics",
                                  !.events = events, !.idx = 1]})
    /\ UNCHANGED <<envVars, store, trending, call, age, lastWrite, applied>>

\* applyMetrics: the next event's increment; the route answers when it ends
ApplyMetricsStep(r, up) ==
    /\ r.pc = "apply"
    /\ LET req == r
           ev == req.events[req.idx]
           last == req.idx = Len(req.events)
       IN  IF up
           THEN /\ trending' = ZIncrBy(trending, ev.id, Weight(ev))
                /\ applied' = [applied EXCEPT ![ev.id] = @ + Weight(ev)]
                /\ reqs' = Step(r,
                     IF last
                     THEN [req EXCEPT !.pc = "done", !.idx = @ + 1,
                                      !.resp = MetricsReply(TRUE)]
                     ELSE [req EXCEPT !.idx = @ + 1])
           ELSE /\ UNCHANGED <<trending, applied>>
                /\ reqs' = Step(r,
                     [req EXCEPT !.pc = "done", !.storeFailed = TRUE,
                                 !.resp = MetricsReply(FALSE)])
    /\ UNCHANGED <<envVars, store, call, age, lastWrite, metricCalls>>

\* the response is sent and the request is over
Reset(r) ==
    /\ r.pc = "done"
    /\ reqs' = reqs (-) SetToBag({r})
    /\ UNCHANGED <<envVars, store, trending, call, age, lastWrite, applied, metricCalls>>

\* an internal route receives the request and calls the system of record
StartInternal(route) ==
    /\ InFlight < NumRequests
    /\ reqs' = reqs (+) SetToBag({[IdleReq EXCEPT !.pc = "catalog", !.kind = route]})
    /\ UNCHANGED <<envVars, store, trending, call, age, lastWrite, applied, metricCalls>>

\* the call returns or throws, and the handler answers
CatalogReturn(r, o) ==
    /\ r.pc = "catalog"
    /\ reqs' = Step(r, [r EXCEPT !.pc = "done", !.sorQueried = TRUE,
                                 !.sorFailed = (o.tag # "ok"), !.outcome = o,
                                 !.resp = InternalReply(r.kind, o)])
    /\ UNCHANGED <<envVars, store, trending, call, age, lastWrite, applied, metricCalls>>

\* an admin request arrives and the hook calls verifyServiceRequest.  The
\* hook keeps no state between requests, so one request is followed at a time.
StartAdmin ==
    /\ InFlight = 0
    /\ \E h \in AdminRequests :
          reqs' = reqs (+) SetToBag({
                    [pc |-> "verify", kind |-> "admin", received |-> h, headers |-> h,
                     verified |-> FALSE, examined |-> <<>>, handlerRan |-> FALSE,
                     resp |-> NoResponse]})
    /\ UNCHANGED <<envVars, store, trending, call, age, lastWrite, applied, metricCalls>>

\* verifyServiceRequest returns or throws; when it returns, the rest of the
\* hook runs without another await
AdminVerified(r, ok) ==
    /\ r.pc = "verify"
    /\ LET hook == PreHandler(r.headers)
       IN  reqs' = Step(r,
             IF ~ok THEN [r EXCEPT !.pc = "done", !.resp = Plain(401, "Unauthorized")]
             ELSE IF hook.status = 403
             THEN [r EXCEPT !.pc = "done", !.verified = TRUE,
                            !.examined = hook.examined,
                            !.resp = Plain(403, "Admin role required")]
             ELSE IF hook.status = 400
             THEN [r EXCEPT !.pc = "done", !.verified = TRUE,
                            !.examined = hook.examined,
                            !.resp = Plain(400, "Missing admin identifier")]
             ELSE [r EXCEPT !.pc = "handler", !.verified = TRUE,
                            !.examined = hook.examined, !.headers = hook.headers])
    /\ UNCHANGED <<envVars, store, trending, call, age, lastWrite, applied, metricCalls>>

\* the route's handler runs
AdminHandler(r) ==
    /\ r.pc = "handler"
    /\ reqs' = Step(r, [r EXCEPT !.pc = "done", !.handlerRan = TRUE,
                                 !.resp = Plain(200, None)])
    /\ UNCHANGED <<envVars, store, trending, call, age, lastWrite, applied, metricCalls>>

(***************************************************************************)
(* Specifications.                                                         *)
(***************************************************************************)
ConfigChoices == {Config(0, 0, 0), Config(2, 1, 1)}

Query(kind, slug) == [kind |-> kind, slug |-> slug]

FeedQuery == Query("feed", None)

\* the viewer routes' queries; requests for different queries share no key
Queries ==
    {FeedQuery, Query("categories", None)}
        \cup {Query(k, s) : k \in {"series", "related"}, s \in Slugs}

InitWith(cfgs, cats, qs) ==
    /\ config \in cfgs
    /\ catalog \in cats
    /\ query \in qs
    /\ store = [k \in Keys |-> Absent]
    /\ trending = [id \in ContentIds |-> 0]
    /\ reqs = EmptyBag
    /\ call = IdleCall
    /\ age = 0 - 1
    /\ lastWrite = NoDoc
    /\ applied = [id \in ContentIds |-> 0]
    /\ metricCalls = 0

\* the service under every fault the environment can produce
Init == InitWith(ConfigChoices, Catalogs, Queries)

Next ==
    \/ StartViewer
    \/ \E r \in Requests, up \in BOOLEAN : SvcCacheGet(r, up)
    \/ \E r \in Requests, up \in BOOLEAN : SvcCacheDel(r, up)
    \/ \E r \in Requests, sorOk \in BOOLEAN, trendUp \in BOOLEAN : SvcFetch(r, sorOk, trendUp)
    \/ \E r \in Requests, up \in BOOLEAN : SvcCacheSet(r, up)
    \/ \E r \in Requests : Reset(r)
    \/ \E t \in ExternalTexts : ExternalWrite(CacheKey(query.kind, query.slug), t)
    \/ Tick

Spec == Init /\ [][Next]_vars

\* the feed scenario: default lifetimes, a healthy catalog, a cold cache, no faults
InitFeed == InitWith({DefaultConfig}, {"healthy"}, {FeedQuery})

NextFeed ==
    \/ StartViewer
    \/ \E r \in Requests : SvcCacheGet(r, TRUE)
    \/ \E r \in Requests : SvcFetch(r, TRUE, TRUE)
    \/ \E r \in Requests : SvcCacheSet(r, TRUE)
    \/ \E r \in Requests : Reset(r)
    \/ Tick

SpecFeed == InitFeed /\ [][NextFeed]_vars

\* the adapter alone, called with every key, value and lifetime
InitAdapter == InitWith({DefaultConfig}, {"healthy"}, {FeedQuery})

NextAdapter ==
    \/ \E k \in AdapterKeys, up \in BOOLEAN : AdapterGet(k, up)
    \/ \E up \in BOOLEAN : AdapterDel(up)
    \/ \E k \in AdapterKeys, v \in AdapterValues, t \in AdapterTtls, up \in BOOLEAN :
          AdapterSet(k, v, t, up)
    \/ AdapterReturn
    \/ \E k \in AdapterKeys, t \in ExternalTexts : ExternalWrite(k, t)
    \/ Tick

SpecAdapter == InitAdapter /\ [][NextAdapter]_vars

\* the engagement-metrics route under concurrent callers and store outages
NextMetrics ==
    \/ \E evs \in MetricBodies : StartMetrics(evs)
    \/ \E r \in Requests, up \in BOOLEAN : ApplyMetricsStep(r, up)
    \/ \E r \in Requests : Reset(r)

SpecMetrics == InitAdapter /\ [][NextMetrics]_vars

\* the internal routes under every result of the system of record
NextInternal ==
    \/ \E route \in InternalRoutes : StartInternal(route)
    \/ \E r \in Requests, o \in CatalogResults : CatalogReturn(r, o)
    \/ \E r \in Requests : Reset(r)

SpecInternal == InitAdapter /\ [][NextInternal]_vars

\* concurrent feed requests while the scores move: no faults, no other
\* writer and no expiry, so a request misses only if its lookup came before
\* every write
NextRace ==
    \/ StartViewer
    \/ \E r \in Requests : SvcCacheGet(r, TRUE)
    \/ \E r \in Requests, trendUp \in BOOLEAN : SvcFetch(r, TRUE, trendUp)
    \/ \E r \in Requests : SvcCacheSet(r, TRUE)
    \/ \E ev \in EventChoices : StartMetrics(<<ev>>)
    \/ \E r \in Requests : ApplyMetricsStep(r, TRUE)
    \/ \E r \in Requests : Reset(r)

SpecRace == InitFeed /\ [][NextRace]_vars

\* the admin routes under every combination of the four headers
NextAdmin ==
    \/ StartAdmin
    \/ \E r \in Requests, ok \in BOOLEAN : AdminVerified(r, ok)
    \/ \E r \in Requests : AdminHandler(r)
    \/ \E r \in Requests : Reset(r)

SpecAdmin == InitAdapter /\ [][NextAdmin]_vars

\* the viewer routes under every lifetime the configuration accepts: a
\* healthy catalog, no faults and no other writer
AcceptedTtls == {n \in 0 .. MaxConfigTtl : EnvAccepts(n)}

InitTtl ==
    InitWith({Config(f, s, r) : f \in AcceptedTtls, s \in AcceptedTtls, r \in AcceptedTtls},
             {"healthy"}, Queries)

NextTtl ==
    \/ StartViewer
    \/ \E r \in Requests : SvcCacheGet(r, TRUE)
    \/ \E r \in Requests : SvcFetch(r, TRUE, TRUE)
    \/ \E r \in Requests : SvcCacheSet(r, TRUE)
    \/ \E r \in Requests : Reset(r)
    \/ Tick

SpecTtl == InitTtl /\ [][NextTtl]_vars

(***************************************************************************)
(* Properties of the cache adapter (SpecAdapter).                          *)
(***************************************************************************)

\* C1: whenever getCachedJson has read a stored payload that does not parse
\* as JSON, it returns null (no error reaches the caller) and the key is
\* absent from the store when it returns.
C1_CorruptPayloadIsDeleted ==
    (call.op = "get" /\ call.pc = "returned" /\ call.reply.present
        /\ ~Parses(call.reply.text))
    => (call.result = "null" /\ ~call.after.present)

\* C8: when setCachedJson returns, the key holds the JSON serialisation of
\* the value given, expiring in exactly ttlSeconds when ttlSeconds > 0 and
\* never when ttlSeconds <= 0, whatever the key held before.
C8_SetStoresSerialisationWithTtl ==
    (call.op = "set" /\ call.pc = "returned" /\ call.result = "void")
    => /\ call.after.present
       /\ call.after.text = JSONstringify(call.value)
       /\ JSONparse(call.after.text) = call.value
       /\ (call.ttl > 0 => call.after.ttl = call.ttl)
       /\ (call.ttl <= 0 => call.after.ttl = NoExpiry)

\* a negative ttl replaced an expiring entry holding another value
C8_Witness ==
    /\ call.op = "set" /\ call.pc = "returned" /\ call.result = "void"
    /\ call.ttl < 0
    /\ call.before.present /\ call.before.ttl > 0
    /\ call.before.text # call.after.text

(***************************************************************************)
(* The feed scenario (SpecFeed).                                           *)
(***************************************************************************)
Done(r) == r.pc = "done"

Viewer(r) == r.kind \in Kinds

\* C2: with the feed lifetime at 60 seconds and a cold cache, a getFeed call
\* reports fromCache true exactly when the service populated the key less
\* than 60 seconds before the call's lookup; the key is in the store exactly
\* during those 60 seconds, so the first call and the first call after the
\* 60 seconds report fromCache false and populate it.
C2_FeedHitExactlyWithinTtl ==
    /\ config.feed = DefaultFeedTtl
    /\ store[WatchedKey].present <=> Fresh
    /\ store[WatchedKey].present => store[WatchedKey].ttl = config.feed - age
    /\ \A r \in Requests :
          (Done(r) /\ r.kind = "feed")
          => /\ r.outcome.tag = "ok"
             /\ r.outcome.fromCache <=> r.sawFresh
             /\ r.resp.xcache = "hit" <=> r.sawFresh

\* a call whose lookup came 60 seconds or more after the key was populated
\* has reported fromCache false and populated the key again, and another
\* call has since been answered from the cache
C2_Witness ==
    \E r, q \in Requests :
        /\ Done(r) /\ r.sawExpired /\ ~r.outcome.fromCache
        /\ Done(q) /\ q.sawFresh /\ q.outcome.fromCache

(***************************************************************************)
(* The engagement-metrics route (SpecMetrics).                             *)
(***************************************************************************)
Metrics(r) == r.kind = "metrics"

\* C3: whatever the interleaving of the callers' increments, every content
\* id's score is its initial score (0) plus the sum of the weighted deltas
\* of the events applied to it.
C3_NoLostUpdate ==
    \A id \in ContentIds : trending[id] = 0 + applied[id]

\* two callers are both part-way through their events for the same id
C3_Witness ==
    \E r, q \in Requests :
        /\ r # q
        /\ Metrics(r) /\ r.pc = "apply" /\ r.idx = 2
        /\ Metrics(q) /\ q.pc = "apply" /\ q.idx = 2
        /\ r.events[1].id = q.events[1].id
        /\ r.events[2].id = r.events[1].id

AllApplied(r) == r.idx = Len(r.events) + 1

\* C7: an engagement-metrics request that met an unreachable store is
\* answered 500, and one answered 202 had every event of its body applied.
C7_MetricsFailLoudly ==
    \A r \in Requests :
        (Done(r) /\ Metrics(r))
        => /\ r.storeFailed => r.resp.status = 500
           /\ r.resp.status = 202 <=> (AllApplied(r) /\ ~r.storeFailed)
           /\ r.resp.status \in {202, 500}

\* the store went away after the first of two events was applied
C7_Witness ==
    \E r \in Requests :
        /\ Done(r) /\ Metrics(r) /\ r.storeFailed
        /\ r.idx = 2 /\ Len(r.events) = 2
        /\ r.resp.status = 500

(***************************************************************************)
(* The viewer routes under faults (Spec).                                  *)
(***************************************************************************)

\* C4: a feed response never carries an item whose series reference does
\* not resolve: on the hit path and on the miss path alike, a document with
\* such an item ends the call with a CatalogConsistencyError whose issue
\* kind names the missing series, and no body is sent.
C4_FeedNeverServesDanglingItem ==
    \A r \in Requests :
        (Done(r) /\ r.kind = "feed")
        => /\ r.resp.status = 200 => ~HasDangling(r.resp.body)
           /\ HasDangling(r.considered)
              => /\ r.outcome = ConsistencyError(MissingSeries)
                 /\ r.resp.status = 500
                 /\ r.resp.issue = MissingSeries
                 /\ r.resp.body = NoDoc

\* a cached feed with a dangling item was refused on the hit path
C4_Witness ==
    \E r \in Requests :
        /\ Done(r) /\ r.kind = "feed"
        /\ ~r.sorQueried
        /\ HasDangling(r.considered)
        /\ r.resp.status = 500

\* C5: when getFeed, getSeriesDetail or getRelatedSeries raises a
\* CatalogConsistencyError, the route answers 500 with the issue kind in
\* the body and sends no payload.
C5_ConsistencyErrorIs500WithIssue ==
    \A r \in Requests :
        (Done(r) /\ r.kind \in {"feed", "series", "related"}
            /\ r.outcome.tag = "consistency")
        => /\ r.resp.status = 500
           /\ r.resp.issue = r.outcome.issue
           /\ r.resp.issue \in {MissingSeries, MissingAsset, EmptySeries}
           /\ r.resp.body = NoDoc

\* getFeed raised on a feed row with a dangling series reference
C5_Witness ==
    \E r \in Requests :
        /\ Done(r) /\ r.kind = "feed" /\ r.sorQueried
        /\ r.outcome = ConsistencyError(MissingSeries)
        /\ r.resp.status = 500

C9_UnknownSlugIs404 ==
    \A r \in Requests :
        (Done(r) /\ r.kind \in {"series", "related"} /\ r.found = "no")
        => /\ r.outcome = Null
           /\ r.resp = SeriesNotFound
           /\ r.resp.status = 404
           /\ r.resp.issue = None

\* getRelatedSeries was asked for a slug that does not resolve
C9_Witness ==
    \E r \in Requests :
        /\ Done(r) /\ r.kind = "related" /\ r.slug = "missing-slug"
        /\ r.found = "no" /\ r.resp.status = 404

\* C10: for each of the four query methods, the response reports a cache
\* hit exactly when the result's fromCache is true and a cache miss exactly
\* when it is false.
C10_EveryRouteReportsFromCache ==
    \A r \in Requests :
        (Done(r) /\ Viewer(r) /\ r.outcome.tag = "ok")
        => /\ r.resp.xcache = "hit" <=> r.outcome.fromCache
           /\ r.resp.xcache = "miss" <=> ~r.outcome.fromCache

(***************************************************************************)
(* The internal routes (SpecInternal).                                     *)
(***************************************************************************)
Internal(r) == r.kind \in InternalRoutes

\* C11: on every internal route that calls the system of record, a
\* NOT_FOUND domain error is answered 404, a FAILED_PRECONDITION domain
\* error is answered 412, any other failure is answered 500, and 200 or
\* 202 is sent only when the call completed without error.
C11_DomainErrorsMapToStatus ==
    \A r \in Requests :
        (Done(r) /\ Internal(r))
        => /\ r.outcome = CatalogServiceError("NOT_FOUND") => r.resp.status = 404
           /\ r.outcome = CatalogServiceError("FAILED_PRECONDITION")
              => r.resp.status = 412
           /\ (r.outcome.tag # "ok"
                  /\ r.outcome # CatalogServiceError("NOT_FOUND")
                  /\ r.outcome # CatalogServiceError("FAILED_PRECONDITION"))
              => r.resp.status = 500
           /\ r.resp.status \in {200, 202} => r.outcome.tag = "ok"

(***************************************************************************)
(* Concurrent misses on one key (SpecRace).                                *)
(***************************************************************************)
Missed(r) == Done(r) /\ r.kind = "feed" /\ r.sorQueried

\* C12: nothing keeps two requests from missing on the same key and both
\* writing; the key then holds exactly the payload of the write that came
\* last, whole and parseable, and every request that missed reports
\* fromCache false.  With two requests in all, the payload left is one of
\* the two they computed.
C12_LastWriteWins ==
    /\ store[WatchedKey].present
       => /\ store[WatchedKey].text = JSONstringify(lastWrite)
          /\ Parses(store[WatchedKey].text)
          /\ JSONparse(store[WatchedKey].text) = lastWrite
    /\ \A r \in Requests :
          Missed(r)
          => /\ r.outcome = Ok(r.doc, FALSE)
             /\ r.resp.xcache = "miss"
    /\ \A r, q \in Requests :
          (Missed(r) /\ Missed(q) /\ Requests = {r, q} /\ InFlight = 2
              /\ NumRequests = 2)
          => store[WatchedKey].text \in {JSONstringify(r.doc), JSONstringify(q.doc)}

\* two requests missed, computed different payloads and both wrote; the
\* key holds the payload of one of them
C12_Witness ==
    \E r, q \in Requests :
        /\ Missed(r) /\ Missed(q)
        /\ ~r.writeFailed /\ ~q.writeFailed
        /\ r.doc # q.doc
        /\ lastWrite = q.doc
        /\ store[WatchedKey].text = JSONstringify(q.doc)

(***************************************************************************)
(* The admin routes (SpecAdmin).                                           *)
(***************************************************************************)
Admin(r) == r.kind = "admin"

HandlerReached(r) == r.pc = "handler" \/ r.handlerRan

\* the roles header as the claim names it
NamedRolesHeader(h) == IF h.adminRole.kind = "absent" THEN h.userRoles ELSE h.adminRole

HasAdminToken(h) ==
    /\ NamedRolesHeader(h).kind = "string"
    /\ \E i \in 1 .. Len(Split(NamedRolesHeader(h).value, <<>>)) :
          IsAdminRole(Split(NamedRolesHeader(h).value, <<>>)[i])

HasIdentifier(h) == h.adminId.kind = "string" \/ h.userId.kind = "string"

\* C13: an admin route handler runs only after verifyServiceRequest
\* completed, then the roles header (x-admin-role, or x-user-roles when
\* x-admin-role is absent) was a string with a token equal to "admin"
\* whatever its case, then an identifier was found as a string in
\* x-admin-id or x-user-id; without the role the request is rejected 403
\* before the identifier is looked at, with the role but no identifier it
\* is rejected 400, and on acceptance x-admin-id holds the identifier.
C13_AdminGate ==
    \A r \in Requests :
        Admin(r)
        => /\ HandlerReached(r)
              => /\ r.verified
                 /\ HasAdminToken(r.received)
                 /\ HasIdentifier(r.received)
                 /\ r.examined = <<"roles", "id">>
                 /\ r.headers.adminId.kind = "string"
                 /\ r.headers.adminId.value # ""
                 /\ r.headers.adminId \in {r.received.adminId, r.received.userId}
                 /\ r.received.adminId.kind = "string"
                    => r.headers.adminId = r.received.adminId
           /\ (r.verified /\ ~HasAdminToken(r.received))
              => (r.pc = "done" /\ r.resp.status = 403 /\ r.examined = <<"roles">>)
           /\ (r.verified /\ HasAdminToken(r.received) /\ ~HasIdentifier(r.received))
              => (r.pc = "done" /\ r.resp.status = 400)
           /\ (~r.verified) => ~HandlerReached(r)

\* the handler ran for a request whose x-admin-role was absent, whose
\* x-user-roles named the role in capitals after a separator, and whose
\* identifier came from x-user-id
C13_Witness ==
    \E r \in Requests :
        /\ Admin(r) /\ r.handlerRan
        /\ r.received.adminRole.kind = "absent"
        /\ r.received.userRoles = Header("string", <<",", "ADMIN">>)
        /\ r.received.adminId.kind = "absent"
        /\ r.headers.adminId = Header("string", "user-2")

(***************************************************************************)
(* Cache lifetimes (SpecTtl).                                              *)
(***************************************************************************)

\* C14: for every feed, series and related lifetime the configuration
\* accepts, 0 included, an entry the service wrote on a miss expires: it
\* carries a finite lifetime, no longer than the configured one.
C14_WrittenEntryHasFiniteExpiry ==
    \A k \in Keys :
        store[k].present
        => /\ store[k].ttl # NoExpiry
           /\ store[k].ttl >= 1
           /\ store[k].ttl <= TtlFor(config, query.kind)

====
